---- MODULE Spec2Model ----
(***************************************************************************)
(* Model of website.py: the USD -> crypto rate cache                       *)
(* (fetch_usd_exchange_rates), the per-asset amount formatter              *)
(* (format_crypto_amount) and the form handler (index).                    *)
(*                                                                         *)
(* Strings whose content the code inspects (price strings, asset symbols,  *)
(* formatted amounts) are sequences of one-character strings, so that      *)
(* parsing, upper-casing, formatting and sorting are computed character by *)
(* character; the characters are those of the Alphabet below, and no       *)
(* operator is defined on a string with another character.                *)
(*                                                                         *)
(* A decimal.Decimal is a record [k, s, c, e]: kind, sign, coefficient and *)
(* exponent, as in Decimal.as_tuple(); the k "InvalidOperation" and        *)
(* "Overflow" stand for the exception an operation raised instead of       *)
(* returning a value.                                                      *)
(***************************************************************************)
EXTENDS Integers, Sequences, FiniteSets, TLC

VARIABLES
    clock,      \* time.time(), in seconds
    cache,      \* _rates_cache: [timestamp, rates]
    origin,     \* for each field of _rates_cache, the fetch that wrote it
    pc,         \* per request thread: position in index / fetch_usd_exchange_rates
    req,        \* per request thread: the form of the request being served
    loc,        \* per request thread: locals of the running call
    page,       \* per request thread: what index handed to render_template_string
    netCalls,   \* per request thread: requests.get calls issued for this request
    last,       \* the most recently returned fetch_usd_exchange_rates call
    fmt         \* one application of format_crypto_amount: input and output

vars == <<clock, cache, origin, pc, req, loc, page, netCalls, last, fmt>>

(***************************************************************************)
(* Characters and strings                                                  *)
(***************************************************************************)

\* The characters of the strings modelled, in code point order (str comparison
\* is by code point): the ASCII characters that a string can be written with
\* here.  Ord, and with it every operator on characters, is defined on these
\* characters only.
Alphabet ==
    << "\t", "\n", "\f", "\r",
       " ", "!", "\"", "#", "$", "%", "&", "'", "(", ")", "*", "+", ",", "-", ".", "/",
       "0", "1", "2", "3", "4", "5", "6", "7", "8", "9",
       ":", ";", "<", "=", ">", "?", "@",
       "A", "B", "C", "D", "E", "F", "G", "H", "I", "J", "K", "L", "M",
       "N", "O", "P", "Q", "R", "S", "T", "U", "V", "W", "X", "Y", "Z",
       "[", "\\", "]", "^", "_",
       "a", "b", "c", "d", "e", "f", "g", "h", "i", "j", "k", "l", "m",
       "n", "o", "p", "q", "r", "s", "t", "u", "v", "w", "x", "y", "z",
       "{", "|", "}", "~" >>

\* the place of each character in the Alphabet
OrdOf ==
    [ch \in {Alphabet[i] : i \in 1..Len(Alphabet)} |->
       CHOOSE i \in 1..Len(Alphabet) : Alphabet[i] = ch]

Ord(ch) == OrdOf[ch]

IsUpperChar(ch) == Ord(ch) >= Ord("A") /\ Ord(ch) <= Ord("Z")
IsLowerChar(ch) == Ord(ch) >= Ord("a") /\ Ord(ch) <= Ord("z")

\* str.upper() and str.lower(), one character
UpperChar(ch) == IF IsLowerChar(ch) THEN Alphabet[Ord(ch) - Ord("a") + Ord("A")] ELSE ch
LowerChar(ch) == IF IsUpperChar(ch) THEN Alphabet[Ord(ch) - Ord("A") + Ord("a")] ELSE ch

Upper(str) == [i \in 1..Len(str) |-> UpperChar(str[i])]
Lower(str) == [i \in 1..Len(str) |-> LowerChar(str[i])]

\* a < b for str: lexicographic by code point, a proper prefix first
RECURSIVE StrLess(_, _)
StrLess(a, b) ==
    IF b = <<>> THEN FALSE
    ELSE IF a = <<>> THEN TRUE
    ELSE IF Head(a) = Head(b) THEN StrLess(Tail(a), Tail(b))
    ELSE Ord(Head(a)) < Ord(Head(b))

\* the characters of the Alphabet with str.isspace()
Whitespace == {"\t", "\n", "\f", "\r", " "}

IsSpace(ch) == Ord(ch) \in {Ord(w) : w \in Whitespace}

RECURSIVE LStrip(_)
LStrip(str) ==
    IF str # <<>> /\ IsSpace(Head(str)) THEN LStrip(Tail(str)) ELSE str

RECURSIVE RStrip(_)
RStrip(str) ==
    IF str # <<>> /\ IsSpace(str[Len(str)])
    THEN RStrip(SubSeq(str, 1, Len(str) - 1))
    ELSE str

\* str.strip()
Strip(str) == RStrip(LStrip(str))

RemoveUnderscores(str) == SelectSeq(str, LAMBDA ch : ch # "_")

\* index of the first character of str that is in set, 0 if there is none
RECURSIVE FindFirst(_, _, _)
FindFirst(str, set, i) ==
    IF i > Len(str) THEN 0
    ELSE IF str[i] \in set THEN i
    ELSE FindFirst(str, set, i + 1)

(***************************************************************************)
(* decimal.Decimal                                                         *)
(***************************************************************************)

DigitChars == <<"0", "1", "2", "3", "4", "5", "6", "7", "8", "9">>

IsDigit(ch) == Ord(ch) >= Ord("0") /\ Ord(ch) <= Ord("9")
DigitVal(ch) == (CHOOSE i \in 1..10 : DigitChars[i] = ch) - 1
AllDigits(str) == \A i \in 1..Len(str) : IsDigit(str[i])

RECURSIVE ToNat(_)
ToNat(ds) ==
    IF ds = <<>> THEN 0
    ELSE 10 * ToNat(SubSeq(ds, 1, Len(ds) - 1)) + DigitVal(ds[Len(ds)])

RECURSIVE NatToDigits(_)
NatToDigits(n) ==
    IF n < 10 THEN <<DigitChars[n + 1]>>
    ELSE NatToDigits(n \div 10) \o <<DigitChars[(n % 10) + 1]>>

\* A coefficient is its string of decimal digits (Decimal._int): no leading
\* zero, "0" for zero.
Zero == <<"0">>
One == <<"1">>

Zeros(n) == [i \in 1..n |-> "0"]

\* str(int(ds)): the leading zeros dropped
RECURSIVE Canonical(_)
Canonical(ds) ==
    IF ds = <<>> THEN Zero
    ELSE IF Len(ds) > 1 /\ Head(ds) = "0" THEN Canonical(Tail(ds))
    ELSE ds

\* int(a) * int(b), column by column: the sum of the digit products of
\* column k (column 0 is the last digit), from the i-th digit of a on
RECURSIVE ColumnSum(_, _, _, _)
ColumnSum(a, b, k, i) ==
    IF i > k \/ i >= Len(a) THEN 0
    ELSE (IF k - i < Len(b)
          THEN DigitVal(a[Len(a) - i]) * DigitVal(b[Len(b) - (k - i)])
          ELSE 0)
         + ColumnSum(a, b, k, i + 1)

\* the carry into column k
RECURSIVE Carry(_, _, _)
Carry(a, b, k) ==
    IF k = 0 THEN 0
    ELSE (ColumnSum(a, b, k - 1, 0) + Carry(a, b, k - 1)) \div 10

\* str(int(a) * int(b))
MulDigits(a, b) ==
    LET n == Len(a) + Len(b)
    IN  Canonical([p \in 1..n |->
                     DigitChars[((ColumnSum(a, b, n - p, 0) + Carry(a, b, n - p)) % 10) + 1]])

\* str(int(q) + 1) for a string of digits q
Increment(q) ==
    LET nines == {i \in 1..Len(q) : \A j \in i..Len(q) : q[j] = "9"}
        at == Len(q) - Cardinality(nines)
    IN  IF at = 0 THEN One \o Zeros(Len(q))
        ELSE SubSeq(q, 1, at - 1) \o <<DigitChars[DigitVal(q[at]) + 2]>>
               \o Zeros(Len(q) - at)

(***************************************************************************)
(* Exponents.  The exponent of a Decimal literal has up to 19 digits, more  *)
(* than an integer of the model checker holds, so an exponent is a record  *)
(* [neg, mag]: mag is the string of digits of its magnitude (no leading    *)
(* zero) and neg is TRUE for a negative one.                               *)
(***************************************************************************)

\* int(ds) for a string of digits
BigNat(ds) == [neg |-> FALSE, mag |-> Canonical(ds)]

\* the integer n
Big(n) ==
    IF n < 0 THEN [neg |-> TRUE, mag |-> NatToDigits(0 - n)]
    ELSE [neg |-> FALSE, mag |-> NatToDigits(n)]

\* int(a), for an a of at most 9 digits
BigToInt(a) == IF a.neg THEN 0 - ToNat(a.mag) ELSE ToNat(a.mag)

BigNeg(a) == IF a.mag = Zero THEN a ELSE [a EXCEPT !.neg = ~a.neg]

\* the digit of ds in column k (column 0 is the last digit)
DigitAt(ds, k) == IF k < Len(ds) THEN DigitVal(ds[Len(ds) - k]) ELSE 0

\* the carry of int(a) + int(b) into column k
RECURSIVE AddCarry(_, _, _)
AddCarry(a, b, k) ==
    IF k = 0 THEN 0
    ELSE (DigitAt(a, k - 1) + DigitAt(b, k - 1) + AddCarry(a, b, k - 1)) \div 10

\* str(int(a) + int(b))
MagAdd(a, b) ==
    LET n == (IF Len(a) > Len(b) THEN Len(a) ELSE Len(b)) + 1
    IN  Canonical([p \in 1..n |->
                     DigitChars[((DigitAt(a, n - p) + DigitAt(b, n - p)
                                    + AddCarry(a, b, n - p)) % 10) + 1]])

\* the borrow of int(a) - int(b) from column k
RECURSIVE SubBorrow(_, _, _)
SubBorrow(a, b, k) ==
    IF k = 0 THEN 0
    ELSE IF DigitAt(a, k - 1) - DigitAt(b, k - 1) - SubBorrow(a, b, k - 1) < 0
         THEN 1 ELSE 0

\* str(int(a) - int(b)), for int(a) >= int(b)
MagSub(a, b) ==
    LET n == Len(a)
    IN  Canonical([p \in 1..n |->
                     DigitChars[((DigitAt(a, n - p) - DigitAt(b, n - p)
                                    - SubBorrow(a, b, n - p) + 10) % 10) + 1]])

\* int(a) < int(b) for canonical strings of digits
MagLess(a, b) == Len(a) < Len(b) \/ (Len(a) = Len(b) /\ StrLess(a, b))

BigAdd(a, b) ==
    IF a.neg = b.neg THEN [neg |-> a.neg, mag |-> MagAdd(a.mag, b.mag)]
    ELSE IF a.mag = b.mag THEN [neg |-> FALSE, mag |-> Zero]
    ELSE IF MagLess(a.mag, b.mag) THEN [neg |-> b.neg, mag |-> MagSub(b.mag, a.mag)]
    ELSE [neg |-> a.neg, mag |-> MagSub(a.mag, b.mag)]

BigSub(a, b) == BigAdd(a, BigNeg(b))

BigLess(a, b) ==
    IF a.neg /\ ~b.neg THEN TRUE
    ELSE IF ~a.neg /\ b.neg THEN FALSE
    ELSE IF a.neg THEN MagLess(b.mag, a.mag)
    ELSE MagLess(a.mag, b.mag)

BigLeq(a, b) == ~BigLess(b, a)

(***************************************************************************)
(* Contexts                                                                *)
(***************************************************************************)

\* the default context: decimal.getcontext().prec, .Emax, .Emin
ContextPrec == 28
Emax == 999999
Emin == -999999
\* Context.Etiny() and Context.Etop()
Etiny == Emin - ContextPrec + 1
Etop == Emax - ContextPrec + 1

\* the context of the exact conversion Decimal(str): decimal.MAX_EMAX and
\* decimal.MAX_PREC are 999999999999999999, decimal.MIN_EMIN is -MAX_EMAX,
\* decimal.MIN_ETINY is MIN_EMIN - (MAX_PREC - 1)
MaxEmaxDigits == 18
MAX_EMAX == BigNat([i \in 1..MaxEmaxDigits |-> "9"])
MAX_PREC == MAX_EMAX
MIN_EMIN == BigNeg(MAX_EMAX)
MIN_ETINY == BigSub(MIN_EMIN, BigSub(MAX_PREC, Big(1)))

(***************************************************************************)
(* Values                                                                  *)
(***************************************************************************)

Fin(s, c, e) == [k |-> "fin", s |-> s, c |-> c, e |-> e]
Inf(s) == [k |-> "inf", s |-> s, c |-> Zero, e |-> Big(0)]
\* a NaN with the diagnostic digits c, Zero when it has none
NaN(s, c) == [k |-> "nan", s |-> s, c |-> c, e |-> Big(0)]
SNaN(s, c) == [k |-> "snan", s |-> s, c |-> c, e |-> Big(0)]
\* the operation raised decimal.InvalidOperation
InvalidOperation == [k |-> "InvalidOperation", s |-> 0, c |-> Zero, e |-> Big(0)]
\* the operation raised decimal.Overflow
Overflow == [k |-> "Overflow", s |-> 0, c |-> Zero, e |-> Big(0)]

Raises(d) == d.k \in {"InvalidOperation", "Overflow"}

\* the numeric part of a Decimal literal: digits [. digits] [E [sign] digits];
\* the conversion is exact, and raises InvalidOperation for a value out of
\* the range MIN_ETINY .. MAX_EMAX
ParseNumber(sign, body) ==
    LET ePos == FindFirst(body, {"e", "E"}, 1)
        mant == IF ePos = 0 THEN body ELSE SubSeq(body, 1, ePos - 1)
        expS == IF ePos = 0 THEN <<>> ELSE SubSeq(body, ePos + 1, Len(body))
        dPos == FindFirst(mant, {"."}, 1)
        intp == IF dPos = 0 THEN mant ELSE SubSeq(mant, 1, dPos - 1)
        frac == IF dPos = 0 THEN <<>> ELSE SubSeq(mant, dPos + 1, Len(mant))
        expSigned == expS # <<>> /\ Head(expS) \in {"+", "-"}
        expDigits == IF expSigned THEN Tail(expS) ELSE expS
        expVal == IF expSigned /\ Head(expS) = "-"
                  THEN BigNeg(BigNat(expDigits)) ELSE BigNat(expDigits)
        mantOk == AllDigits(intp) /\ AllDigits(frac) /\ Len(intp) + Len(frac) > 0
        expOk == ePos = 0 \/ (expDigits # <<>> /\ AllDigits(expDigits))
        c == Canonical(intp \o frac)
        e == BigSub(IF ePos = 0 THEN Big(0) ELSE expVal, Big(Len(frac)))
        adjusted == BigAdd(e, Big(Len(c) - 1))
    IN  IF mantOk /\ expOk /\ BigLeq(MIN_ETINY, e) /\ BigLeq(adjusted, MAX_EMAX)
        THEN Fin(sign, c, e)
        ELSE InvalidOperation

\* Decimal(str): the value, or InvalidOperation for a string that is no literal
ParseDecimal(str) ==
    LET v == RemoveUnderscores(Strip(str))
        signed == v # <<>> /\ Head(v) \in {"+", "-"}
        sign == IF signed /\ Head(v) = "-" THEN 1 ELSE 0
        body == IF signed THEN Tail(v) ELSE v
        low == Lower(body)
    IN  IF low \in {<<"i", "n", "f">>, <<"i", "n", "f", "i", "n", "i", "t", "y">>}
        THEN Inf(sign)
        ELSE IF Len(low) >= 3 /\ SubSeq(low, 1, 3) = <<"n", "a", "n">>
                /\ AllDigits(SubSeq(low, 4, Len(low)))
        THEN NaN(sign, Canonical(SubSeq(low, 4, Len(low))))
        ELSE IF Len(low) >= 4 /\ SubSeq(low, 1, 4) = <<"s", "n", "a", "n">>
                /\ AllDigits(SubSeq(low, 5, Len(low)))
        THEN SNaN(sign, Canonical(SubSeq(low, 5, Len(low))))
        ELSE ParseNumber(sign, body)

\* the comparison written d <= 0
IsNotPositive(d) ==
    IF d.k \in {"nan", "snan"} THEN "raise"
    ELSE IF d.k = "inf" THEN (IF d.s = 1 THEN "yes" ELSE "no")
    ELSE IF d.s = 1 \/ d.c = Zero THEN "yes" ELSE "no"

\* d < 0 (Decimal.__lt__): "raise" when an operand is a NaN
IsNegative(d) ==
    IF d.k \in {"nan", "snan"} THEN "raise"
    ELSE IF d.k = "inf" THEN (IF d.s = 1 THEN "yes" ELSE "no")
    ELSE IF d.s = 1 /\ d.c # Zero THEN "yes" ELSE "no"

\* the NaN an operation returns for a NaN operand: the diagnostic digits cut
\* to the last ContextPrec
FixNaN(d) ==
    IF Len(d.c) > ContextPrec
    THEN [d EXCEPT !.c = Canonical(SubSeq(d.c, Len(d.c) - ContextPrec + 1, Len(d.c)))]
    ELSE d

\* the finite result of an operation fitted to the default context
\* (Decimal._fix): the exponent of a zero brought into Etiny .. Emax,
\* Overflow for an adjusted exponent above Emax, the coefficient rounded
\* half-even to ContextPrec digits, or to the digits above Etiny for a
\* subnormal result
Fix(d) ==
    LET normal_min == BigAdd(d.e, Big(Len(d.c) - ContextPrec))
        subnormal == BigLess(normal_min, Big(Etiny))
        exp_min == IF subnormal THEN Big(Etiny) ELSE normal_min
        digits_big == BigAdd(BigSub(d.e, exp_min), Big(Len(d.c)))
        digits == BigToInt(digits_big)
        q == IF digits = 0 THEN Zero ELSE SubSeq(d.c, 1, digits)
        r == SubSeq(d.c, digits + 1, Len(d.c))
        half == <<"5">> \o Zeros(Len(r) - 1)
        above == DigitVal(r[1]) > 5 \/ (DigitVal(r[1]) = 5 /\ r # half)
        up == above \/ (r = half /\ DigitVal(q[Len(q)]) % 2 = 1)
        coeff == IF up THEN Increment(q) ELSE q
    IN  IF d.c = Zero
        THEN Fin(d.s, Zero,
                 IF BigLess(d.e, Big(Etiny)) THEN Big(Etiny)
                 ELSE IF BigLess(Big(Emax), d.e) THEN Big(Emax)
                 ELSE d.e)
        ELSE IF BigLess(Big(Etop), normal_min) THEN Overflow
        ELSE IF ~BigLess(d.e, exp_min) THEN d
        ELSE IF digits_big.neg THEN Fin(d.s, Zero, exp_min)
        ELSE IF Len(coeff) <= ContextPrec THEN Fin(d.s, coeff, exp_min)
        ELSE IF exp_min = Big(Etop) THEN Overflow
        ELSE Fin(d.s, SubSeq(coeff, 1, ContextPrec), BigAdd(exp_min, Big(1)))

\* a * b (Decimal.__mul__)
Mul(a, b) ==
    LET s == (a.s + b.s) % 2
    IN  IF "snan" \in {a.k, b.k} THEN InvalidOperation
        ELSE IF a.k = "nan" THEN FixNaN(a)
        ELSE IF b.k = "nan" THEN FixNaN(b)
        ELSE IF a.k = "inf"
        THEN (IF b.k = "fin" /\ b.c = Zero THEN InvalidOperation ELSE Inf(s))
        ELSE IF b.k = "inf"
        THEN (IF a.c = Zero THEN InvalidOperation ELSE Inf(s))
        ELSE Fix(Fin(s, MulDigits(a.c, b.c), BigAdd(a.e, b.e)))

\* the quantize called with rounding=ROUND_HALF_UP
QuantizeHalfUp(d, precision) ==
    LET digits_big == BigAdd(d.e, Big(Len(d.c) + precision))
        digits == BigToInt(digits_big)
        kept == IF digits = 0 THEN Zero ELSE SubSeq(d.c, 1, digits)
        up == DigitVal(d.c[digits + 1]) >= 5
    IN  IF d.k = "snan" THEN InvalidOperation
        ELSE IF d.k = "nan" THEN FixNaN(d)
        ELSE IF d.k = "inf" THEN InvalidOperation
        ELSE IF d.c = Zero THEN Fin(d.s, Zero, Big(0 - precision))
        ELSE IF BigLess(Big(ContextPrec), digits_big) THEN InvalidOperation
        ELSE IF ~BigLess(d.e, Big(0 - precision))
        THEN Fin(d.s, d.c \o Zeros(BigToInt(d.e) + precision), Big(0 - precision))
        ELSE IF digits_big.neg THEN Fin(d.s, Zero, Big(0 - precision))
        ELSE Fin(d.s, IF up THEN Increment(kept) ELSE kept, Big(0 - precision))

\* d.quantize(Decimal(10) ** -precision, rounding=ROUND_DOWN): the result has
\* the exponent -precision and the digits of d above it; InvalidOperation
\* for an infinity and for a result of more than ContextPrec digits
QuantizeDown(d, precision) ==
    LET digits_big == BigAdd(d.e, Big(Len(d.c) + precision))
        digits == BigToInt(digits_big)
    IN  IF d.k = "snan" THEN InvalidOperation
        ELSE IF d.k = "nan" THEN FixNaN(d)
        ELSE IF d.k = "inf" THEN InvalidOperation
        ELSE IF d.c = Zero THEN Fin(d.s, Zero, Big(0 - precision))
        ELSE IF BigLess(Big(ContextPrec), digits_big) THEN InvalidOperation
        ELSE IF ~BigLess(d.e, Big(0 - precision))
        THEN Fin(d.s, d.c \o Zeros(BigToInt(d.e) + precision), Big(0 - precision))
        ELSE IF digits_big.neg \/ digits = 0 THEN Fin(d.s, Zero, Big(0 - precision))
        ELSE Fin(d.s, SubSeq(d.c, 1, digits), Big(0 - precision))

\* f"{d:f}": the digits with the point -e digits from the end, no exponent
FormatF(d) ==
    LET sgn == IF d.s = 1 THEN <<"-">> ELSE <<>>
        payload == IF d.c = Zero THEN <<>> ELSE d.c
        e == BigToInt(d.e)
        nfrac == 0 - e
        all == Zeros(nfrac + 1 - Len(d.c)) \o d.c
    IN  IF d.k = "nan" THEN sgn \o <<"N", "a", "N">> \o payload
        ELSE IF d.k = "snan" THEN sgn \o <<"s", "N", "a", "N">> \o payload
        ELSE IF d.k = "inf" THEN sgn \o <<"I", "n", "f", "i", "n", "i", "t", "y">>
        ELSE IF e >= 0 THEN sgn \o (IF d.c = Zero THEN Zero ELSE d.c \o Zeros(e))
        ELSE sgn \o SubSeq(all, 1, Len(all) - nfrac) \o <<".">>
                 \o SubSeq(all, Len(all) - nfrac + 1, Len(all))

(***************************************************************************)
(* format_crypto_amount                                                    *)
(***************************************************************************)

ADA == <<"A", "D", "A">>
BTC == <<"B", "T", "C">>
DOGE == <<"D", "O", "G", "E">>
ETH == <<"E", "T", "H">>
LTC == <<"L", "T", "C">>
SOL == <<"S", "O", "L">>
USDC == <<"U", "S", "D", "C">>
USDT == <<"U", "S", "D", "T">>
XRP == <<"X", "R", "P">>

SUPPORTED_CRYPTOS == <<BTC, ETH, SOL, USDC, USDT, XRP, ADA, DOGE, LTC>>

DefaultPrecision == 8
StablePrecision == 2
AltPrecision == 4

Precision(symbol) ==
    IF Upper(symbol) \in {USDC, USDT} THEN StablePrecision
    ELSE IF Upper(symbol) \in {XRP, ADA, DOGE, SOL, LTC} THEN AltPrecision
    ELSE DefaultPrecision

\* the string returned, or raises = TRUE when quantize raised InvalidOperation
\* (nothing else in the function raises)
format_crypto_amount(symbol, amount) ==
    LET q == QuantizeDown(amount, Precision(symbol))
    IN  IF Raises(q) THEN [raises |-> TRUE, text |-> <<>>]
        ELSE [raises |-> FALSE, text |-> FormatF(q)]

(***************************************************************************)
(* Inputs                                                                  *)
(***************************************************************************)

Threads == {"t1", "t2"}

CACHE_TTL_SECONDS == 60

\* the clock advances in steps of TickStep seconds, up to MaxClock
TickStep == 20
MaxClock == 140
\* the same while requests overlap
OverlapMaxClock == 120

Headphones == <<"H", "e", "a", "d", "p", "h", "o", "n", "e", "s">>

PriceMissing == <<>>
PriceAbc == <<"a", "b", "c">>
PriceMinus5 == <<"-", "5">>
PriceZero == <<" ", "0">>
Price129 == <<"1", "2", "9", ".", "9", "9">>
PriceInf == <<"I", "n", "f", "i", "n", "i", "t", "y">>
Price1E30 == <<"1", "E", "3", "0">>
PriceNaN == <<"n", "a", "n">>

\* the price fields a form is submitted with
Prices ==
    {PriceMissing, PriceAbc, PriceMinus5, PriceZero, Price129, PriceInf,
     Price1E30, PriceNaN}

\* the cryptos lists a form is submitted with; the empty list selects nothing
CryptoLists == { <<>>, <<<<"u", "s", "d", "c">>, BTC>>, <<SOL, <<"b", "t", "c">>>> }

\* the forms of the requests that overlap in time
OverlapPrices == {PriceZero}
OverlapCryptoLists == { <<>> }

\* data.rates of the API's response, in the order of the JSON object
RatesA ==
    << <<BTC, <<"0", ".", "0", "0", "0", "0", "2">>>>,
       <<USDC, <<"1", ".", "0", "0", "0", "1", "3">>>> >>
RatesB ==
    << <<<<"b", "t", "c">>, <<"0", ".", "0", "0", "0", "0", "3">>>>,
       <<SOL, <<"a", "b", "c">>>>,
       <<ETH, <<"N", "a", "N", "7">>>>,
       <<<<"u", "s", "d", "t">>, <<"1", ".", "0">>>> >>

\* what requests.get / raise_for_status / resp.json() can come to
Responses ==
    { [ok |-> TRUE, exc |-> "", rates |-> RatesA],
      [ok |-> TRUE, exc |-> "", rates |-> RatesB],
      [ok |-> FALSE, exc |-> "ConnectionError", rates |-> <<>>],
      [ok |-> FALSE, exc |-> "HTTPError", rates |-> <<>>] }

(***************************************************************************)
(* fetch_usd_exchange_rates: parsing of the response                       *)
(***************************************************************************)

EmptyRates == [sym \in {} |-> InvalidOperation]

\* rates[symbol.upper()] = Decimal(value), skipping the values that do not parse
RECURSIVE ParseRates(_, _)
ParseRates(raw, rates) ==
    IF raw = <<>> THEN rates
    ELSE LET symbol == Head(raw)[1]
             value == ParseDecimal(Head(raw)[2])
         IN  ParseRates(Tail(raw),
                        IF Raises(value) THEN rates
                        ELSE [sym \in DOMAIN rates \cup {Upper(symbol)} |->
                                IF sym = Upper(symbol) THEN value ELSE rates[sym]])

(***************************************************************************)
(* index: the result rows                                                  *)
(***************************************************************************)

NoError == <<>>
ValidationError == <<"Please enter a valid non-negative USD price.">>
FetchError(exc) == <<"Failed to fetch live rates: ", exc>>

\* selected_symbols after the form is read
SelectedSymbols(cryptos) ==
    IF cryptos # <<>> THEN [i \in 1..Len(cryptos) |-> Upper(cryptos[i])]
    ELSE SUPPORTED_CRYPTOS

\* the loop run over the default list instead of selected_symbols
AvailableOfDefaults(selected, rates) ==
    SelectSeq(SUPPORTED_CRYPTOS, LAMBDA sym : sym \in DOMAIN rates)

\* the selected symbols that rates.get(sym) finds, in the order selected
Available(selected, rates) == SelectSeq(selected, LAMBDA sym : sym \in DOMAIN rates)

\* one pass of the loop body raises: Overflow or InvalidOperation from the
\* product, InvalidOperation from a format_crypto_amount
RowRaises(sym, rate, usd_price) ==
    LET amount == Mul(usd_price, rate)
    IN  \/ Raises(amount)
        \/ format_crypto_amount(sym, rate).raises
        \/ format_crypto_amount(sym, amount).raises

Row(sym, rate, usd_price) ==
    [ symbol |-> sym,
      usd_rate |-> format_crypto_amount(sym, rate).text,
      item_amount |-> format_crypto_amount(sym, Mul(usd_price, rate)).text ]

\* list.sort(key=symbol): stable insertion of row into the sorted rows
RECURSIVE Insert(_, _)
Insert(rows, row) ==
    IF rows = <<>> THEN <<row>>
    ELSE IF StrLess(row.symbol, rows[Len(rows)].symbol)
         THEN Insert(SubSeq(rows, 1, Len(rows) - 1), row) \o <<rows[Len(rows)]>>
         ELSE rows \o <<row>>

RECURSIVE SortBySymbol(_)
SortBySymbol(rows) ==
    IF rows = <<>> THEN <<>>
    ELSE Insert(SortBySymbol(SubSeq(rows, 1, Len(rows) - 1)), rows[Len(rows)])

BuildRaises(selected, rates, usd_price) ==
    \E i \in 1..Len(selected) :
        /\ selected[i] \in DOMAIN rates
        /\ RowRaises(selected[i], rates[selected[i]], usd_price)

BuildResults(selected, rates, usd_price) ==
    LET avail == Available(selected, rates)
    IN  SortBySymbol([i \in 1..Len(avail) |-> Row(avail[i], rates[avail[i]], usd_price)])

(***************************************************************************)
(* State                                                                   *)
(***************************************************************************)

NoRequest == [method |-> "none", item |-> <<>>, price |-> <<>>, cryptos |-> <<>>]
NoLocals == [usd_price |-> Fin(0, Zero, Big(0)), now |-> 0, rates |-> EmptyRates]
NoPage == [error |-> NoError, results |-> <<>>, item |-> <<>>, price |-> <<>>,
           selected_symbols |-> <<>>]
InitialFetch == [by |-> "init", at |-> 0]
NoCall == [kind |-> "none", now |-> 0, rates |-> EmptyRates]
NoFormat == [symbol |-> <<>>, amount |-> Fin(0, Zero, Big(0)), done |-> FALSE,
             out |-> [raises |-> FALSE, text |-> <<>>]]

\* the arguments format_crypto_amount is applied to
FormatSymbols ==
    {BTC, ETH, SOL, USDC, USDT, XRP, ADA, DOGE, LTC,
     <<"u", "s", "d", "c">>, <<"x", "r", "p">>, <<"X", "Y", "Z">>, <<>>}
FormatAmounts ==
    { Fin(0, NatToDigits(123456789), Big(-9)), Fin(0, NatToDigits(1999999995), Big(-9)),
      Fin(1, NatToDigits(1999999995), Big(-9)), Fin(0, Zero, Big(0)),
      Fin(1, Zero, Big(0)), Fin(0, Zero, Big(Emax)),
      Fin(0, One, Big(-3)), Fin(1, One, Big(-3)), Fin(0, One, Big(-40)),
      Fin(0, One, Big(Etiny)),
      Fin(0, NatToDigits(1300068987), Big(-7)), Fin(0, NatToDigits(25998), Big(-7)),
      Fin(0, NatToDigits(5), Big(0)), Fin(0, NatToDigits(99999), Big(-4)),
      Fin(0, One, Big(19)), Fin(0, One, Big(20)), Fin(0, One, Big(25)),
      Fin(0, One, Big(26)), Fin(1, NatToDigits(25), Big(28)), Fin(0, One, Big(Emax)),
      Inf(0), Inf(1), NaN(0, Zero), NaN(1, NatToDigits(123)) }

\* the process as it starts: the module-level _rates_cache, no request yet
InitProcess ==
    /\ clock = CACHE_TTL_SECONDS
    /\ cache = [timestamp |-> 0, rates |-> EmptyRates]
    /\ origin = [timestamp |-> InitialFetch, rates |-> InitialFetch]
    /\ pc = [t \in Threads |-> "idle"]
    /\ req = [t \in Threads |-> NoRequest]
    /\ loc = [t \in Threads |-> NoLocals]
    /\ page = [t \in Threads |-> NoPage]
    /\ netCalls = [t \in Threads |-> 0]
    /\ last = NoCall

Init == InitProcess /\ fmt = NoFormat

\* the page index renders: render_template_string(TEMPLATE, ...)
Render(t, error, results, item, price_str, selected_symbols) ==
    /\ page' = [page EXCEPT ![t] =
                  [error |-> error, results |-> results, item |-> item,
                   price |-> price_str, selected_symbols |-> selected_symbols]]
    /\ loc' = [loc EXCEPT ![t] = NoLocals]
    /\ pc' = [pc EXCEPT ![t] = "rendered"]

(***************************************************************************)
(* index                                                                   *)
(***************************************************************************)

\* GET /: the empty form
IndexGet(t) ==
    /\ pc[t] \in {"idle", "rendered", "crashed"}
    /\ req' = [req EXCEPT ![t] = [NoRequest EXCEPT !.method = "GET"]]
    /\ netCalls' = [netCalls EXCEPT ![t] = 0]
    /\ Render(t, NoError, <<>>, <<>>, <<>>, SUPPORTED_CRYPTOS)
    /\ UNCHANGED <<clock, cache, origin, last, fmt>>

\* POST /: the form is read and the price validated; a valid price goes on to
\* call fetch_usd_exchange_rates
IndexPost(t, prices, cryptoLists) ==
    /\ pc[t] \in {"idle", "rendered", "crashed"}
    /\ \E price \in prices, cryptos \in cryptoLists :
         LET price_str == Strip(price)
             usd_price == ParseDecimal(price_str)
             invalid == Raises(usd_price) \/ IsNegative(usd_price) # "no"
         IN  /\ req' = [req EXCEPT ![t] =
                          [method |-> "POST", item |-> Headphones, price |-> price,
                           cryptos |-> cryptos]]
             /\ netCalls' = [netCalls EXCEPT ![t] = 0]
             /\ IF invalid
                THEN Render(t, ValidationError, <<>>, Strip(Headphones), price_str,
                            SelectedSymbols(cryptos))
                ELSE /\ loc' = [loc EXCEPT ![t] = [NoLocals EXCEPT !.usd_price = usd_price]]
                     /\ pc' = [pc EXCEPT ![t] = "fetch_now"]
                     /\ page' = [page EXCEPT ![t] = NoPage]
    /\ UNCHANGED <<clock, cache, origin, last, fmt>>

\* the loop over selected_symbols, the sort and the rendering; an
\* exception raised in the loop leaves index uncaught
IndexBuild(t) ==
    /\ pc[t] = "build"
    /\ LET selected == SelectedSymbols(req[t].cryptos)
       IN  IF BuildRaises(selected, loc[t].rates, loc[t].usd_price)
           THEN /\ pc' = [pc EXCEPT ![t] = "crashed"]
                /\ loc' = [loc EXCEPT ![t] = NoLocals]
                /\ page' = [page EXCEPT ![t] = NoPage]
           ELSE Render(t, NoError,
                       BuildResults(selected, loc[t].rates, loc[t].usd_price),
                       Strip(req[t].item), Strip(req[t].price), selected)
    /\ UNCHANGED <<clock, cache, origin, req, netCalls, last, fmt>>

(***************************************************************************)
(* fetch_usd_exchange_rates                                                *)
(***************************************************************************)

\* now = time.time()
FetchNow(t) ==
    /\ pc[t] = "fetch_now"
    /\ loc' = [loc EXCEPT ![t].now = clock]
    /\ pc' = [pc EXCEPT ![t] = "fetch_check"]
    /\ UNCHANGED <<clock, cache, origin, req, page, netCalls, last, fmt>>

\* the comparison made on the clock instead of the snapshot's age
IsFreshByClock(now, timestamp) == now < CACHE_TTL_SECONDS

IsFresh(now, timestamp) == (now - timestamp) < CACHE_TTL_SECONDS

\* if (now - float(_rates_cache.get("timestamp", 0))) < _CACHE_TTL_SECONDS
FetchCheck(t) ==
    /\ pc[t] = "fetch_check"
    /\ pc' = [pc EXCEPT ![t] =
                IF IsFresh(loc[t].now, cache.timestamp) THEN "fetch_hit" ELSE "fetch_get"]
    /\ UNCHANGED <<clock, cache, origin, req, loc, page, netCalls, last, fmt>>

\* return _rates_cache["rates"]
FetchHit(t) ==
    /\ pc[t] = "fetch_hit"
    /\ loc' = [loc EXCEPT ![t].rates = cache.rates, ![t].now = 0]
    /\ pc' = [pc EXCEPT ![t] = "build"]
    /\ last' = [kind |-> "hit", now |-> loc[t].now, rates |-> cache.rates]
    /\ UNCHANGED <<clock, cache, origin, req, page, netCalls, fmt>>

\* the timestamp written as the request is made
FetchGetStampedFirst(t) ==
    /\ pc[t] = "fetch_get"
    /\ netCalls' = [netCalls EXCEPT ![t] = @ + 1]
    /\ cache' = [cache EXCEPT !.timestamp = loc[t].now]
    /\ pc' = [pc EXCEPT ![t] = "fetch_response"]
    /\ UNCHANGED <<clock, origin, req, loc, page, last, fmt>>

\* requests.get(url, timeout=10) is called: the request is on its way, and
\* the thread waits for the response while the others run
FetchGet(t) ==
    /\ pc[t] = "fetch_get"
    /\ netCalls' = [netCalls EXCEPT ![t] = @ + 1]
    /\ pc' = [pc EXCEPT ![t] = "fetch_response"]
    /\ UNCHANGED <<clock, cache, origin, req, loc, page, last, fmt>>

\* requests.get returns or raises, then raise_for_status, resp.json() and the
\* parsing loop; a failure is caught by index, which renders its message
FetchResponse(t) ==
    /\ pc[t] = "fetch_response"
    /\ \E resp \in Responses :
         IF resp.ok
         THEN /\ loc' = [loc EXCEPT ![t].rates = ParseRates(resp.rates, EmptyRates)]
              /\ pc' = [pc EXCEPT ![t] = "fetch_store_timestamp"]
              /\ UNCHANGED <<page, last>>
         ELSE /\ Render(t, FetchError(resp.exc), <<>>, Strip(req[t].item),
                        Strip(req[t].price), SelectedSymbols(req[t].cryptos))
              /\ last' = [kind |-> "failed", now |-> loc[t].now, rates |-> EmptyRates]
    /\ UNCHANGED <<clock, cache, origin, req, netCalls, fmt>>

\* _rates_cache["timestamp"] = now
FetchStoreTimestamp(t) ==
    /\ pc[t] = "fetch_store_timestamp"
    /\ cache' = [cache EXCEPT !.timestamp = loc[t].now]
    /\ origin' = [origin EXCEPT !.timestamp = [by |-> t, at |-> loc[t].now]]
    /\ pc' = [pc EXCEPT ![t] = "fetch_store_rates"]
    /\ UNCHANGED <<clock, req, loc, page, netCalls, last, fmt>>

\* the new rates merged into the cached map: _rates_cache["rates"].update(rates)
FetchStoreRatesMerged(t) ==
    /\ pc[t] = "fetch_store_rates"
    /\ cache' = [cache EXCEPT !.rates =
                    [sym \in DOMAIN cache.rates \cup DOMAIN loc[t].rates |->
                       IF sym \in DOMAIN loc[t].rates THEN loc[t].rates[sym]
                       ELSE cache.rates[sym]]]
    /\ origin' = [origin EXCEPT !.rates = [by |-> t, at |-> loc[t].now]]
    /\ loc' = [loc EXCEPT ![t].now = 0]
    /\ pc' = [pc EXCEPT ![t] = "build"]
    /\ last' = [kind |-> "fetched", now |-> loc[t].now, rates |-> loc[t].rates]
    /\ UNCHANGED <<clock, req, page, netCalls, fmt>>

\* _rates_cache["rates"] = rates; return rates
FetchStoreRates(t) ==
    /\ pc[t] = "fetch_store_rates"
    /\ cache' = [cache EXCEPT !.rates = loc[t].rates]
    /\ origin' = [origin EXCEPT !.rates = [by |-> t, at |-> loc[t].now]]
    /\ loc' = [loc EXCEPT ![t].now = 0]
    /\ pc' = [pc EXCEPT ![t] = "build"]
    /\ last' = [kind |-> "fetched", now |-> loc[t].now, rates |-> loc[t].rates]
    /\ UNCHANGED <<clock, req, page, netCalls, fmt>>

\* time passes
Tick(max) ==
    /\ clock + TickStep <= max
    /\ clock' = clock + TickStep
    /\ UNCHANGED <<cache, origin, pc, req, loc, page, netCalls, last, fmt>>

(***************************************************************************)
(* Specifications                                                          *)
(***************************************************************************)

\* requests served by threads that overlap in time
Next ==
    \/ Tick(OverlapMaxClock)
    \/ \E t \in Threads :
         \/ IndexPost(t, OverlapPrices, OverlapCryptoLists)
         \/ FetchNow(t)
         \/ FetchCheck(t)
         \/ FetchHit(t)
         \/ FetchGet(t)
         \/ FetchResponse(t)
         \/ FetchStoreTimestamp(t)
         \/ FetchStoreRates(t)
         \/ IndexBuild(t)

Spec == Init /\ [][Next]_vars

\* requests served one after the other
SeqNext ==
    \/ Tick(MaxClock)
    \/ IndexGet("t1")
    \/ IndexPost("t1", Prices, CryptoLists)
    \/ FetchNow("t1")
    \/ FetchCheck("t1")
    \/ FetchHit("t1")
    \/ FetchGet("t1")
    \/ FetchResponse("t1")
    \/ FetchStoreTimestamp("t1")
    \/ FetchStoreRates("t1")
    \/ IndexBuild("t1")

SeqSpec == Init /\ [][SeqNext]_vars

\* format_crypto_amount applied to one symbol and one amount
FormatInit ==
    /\ InitProcess
    /\ \E symbol \in FormatSymbols, amount \in FormatAmounts :
         fmt = [NoFormat EXCEPT !.symbol = symbol, !.amount = amount]

Format ==
    /\ ~fmt.done
    /\ fmt' = [fmt EXCEPT !.done = TRUE,
                          !.out = format_crypto_amount(fmt.symbol, fmt.amount)]
    /\ UNCHANGED <<clock, cache, origin, pc, req, loc, page, netCalls, last>>

FormatSpec == FormatInit /\ [][Format]_vars

(***************************************************************************)
(* Properties                                                              *)
(***************************************************************************)

Resting == {"idle", "rendered", "crashed"}

\* thread t's fetch_usd_exchange_rates call returns a map in this step
Returns(t) == pc[t] \in {"fetch_hit", "fetch_store_rates"} /\ pc'[t] = "build"

\* thread t takes the step at position p in this step
Leaves(t, p) == pc[t] = p /\ pc'[t] # p

\* the previous call returned a map, less than the TTL before this one
\* read the clock
FollowsCall(now) ==
    /\ last.kind \in {"hit", "fetched"}
    /\ now - last.now < CACHE_TTL_SECONDS

ExampleRates == ParseRates(RatesA, EmptyRates)

ExampleRows(usdc_amount) ==
    << [ symbol |-> BTC,
         usd_rate |-> <<"0", ".", "0", "0", "0", "0", "2", "0", "0", "0">>,
         item_amount |-> <<"0", ".", "0", "0", "2", "5", "9", "9", "8", "0">> ],
       [ symbol |-> USDC,
         usd_rate |-> <<"1", ".", "0", "0">>,
         item_amount |-> usdc_amount ] >>

\* a <= b for the numbers two canonical digit strings write
NumLeq(a, b) == Len(a) < Len(b) \/ (Len(a) = Len(b) /\ ~StrLess(b, a))

\* text writes amount truncated toward zero to exactly p digits after the point
IsTruncation(text, amount, p) ==
    LET v == ParseDecimal(text)
        point == FindFirst(text, {"."}, 1)
        drop_big == BigSub(Big(0 - p), amount.e)
        drop == BigToInt(drop_big)
        low == v.c \o Zeros(drop)
        high == Increment(v.c) \o Zeros(drop)
    IN  /\ point > 0
        /\ Len(text) - point = p
        /\ AllDigits(SubSeq(text, point + 1, Len(text)))
        /\ amount.k = "fin"
        /\ v.k = "fin"
        /\ v.e = Big(0 - p)
        /\ v.c # Zero => v.s = amount.s
        /\ IF amount.c = Zero
           THEN v.c = Zero
           ELSE IF drop_big.neg \/ drop_big.mag = Zero
           THEN v.c = Canonical(amount.c \o Zeros(0 - drop))
           ELSE IF BigLess(Big(Len(amount.c)), drop_big)
           THEN v.c = Zero
           ELSE /\ NumLeq(Canonical(low), amount.c)
                /\ amount.c # Canonical(high)
                /\ NumLeq(amount.c, Canonical(high))

\* C1, as claimed: a call that returns a map less than 60 seconds after the
\* previous call returned one, with no failed fetch between them, returns the
\* same map and has issued no network call.
C1_CallsWithinTtlShareMap ==
    [][\A t \in Threads :
         (Returns(t) /\ FollowsCall(loc[t].now))
            => (last'.rates = last.rates /\ netCalls'[t] = 0)]_vars

\* C1, amended: when in addition the second call reads the clock less than 60
\* seconds after the snapshot's fetchedAt, it takes the cached branch (no
\* network call) and returns the same map as the previous call.
C1_CallsWithinTtlOfFetchShareMap ==
    [][\A t \in Threads :
         /\ (Leaves(t, "fetch_check") /\ FollowsCall(loc[t].now)
               /\ loc[t].now - cache.timestamp < CACHE_TTL_SECONDS)
            => pc'[t] = "fetch_hit"
         /\ (Leaves(t, "fetch_hit") /\ FollowsCall(loc[t].now))
            => (pc'[t] = "build" /\ last'.rates = last.rates /\ netCalls'[t] = 0
                /\ loc'[t].rates = last.rates)]_vars

\* a call has returned the cached map of a fetch made at an earlier time
C1_Witness ==
    /\ pc["t1"] = "build"
    /\ last.kind = "hit"
    /\ last.now > cache.timestamp
    /\ last.now - cache.timestamp < CACHE_TTL_SECONDS
    /\ loc["t1"].rates = cache.rates
    /\ cache.rates # EmptyRates
    /\ netCalls["t1"] = 0

\* C2: a call that reads the clock more than 60 seconds after the snapshot's
\* fetchedAt goes to the network; a call that goes to the network issues its
\* one request and has issued exactly one when the response ends the wait;
\* when it returns, the snapshot is the call's clock reading with the map it
\* parsed, and that map is returned.
C2_StaleCallFetchesOnceAndReplaces ==
    [][\A t \in Threads :
         /\ (Leaves(t, "fetch_check")
               /\ loc[t].now - cache.timestamp > CACHE_TTL_SECONDS)
            => pc'[t] = "fetch_get"
         /\ Leaves(t, "fetch_get")
            => (netCalls[t] = 0 /\ netCalls'[t] = 1 /\ pc'[t] = "fetch_response")
         /\ Leaves(t, "fetch_response")
            => (netCalls'[t] = 1 /\ pc'[t] \in {"fetch_store_timestamp", "rendered"})
         /\ Leaves(t, "fetch_store_rates")
            => (/\ netCalls'[t] = 1
                /\ pc'[t] = "build"
                /\ cache' = [timestamp |-> loc[t].now, rates |-> loc[t].rates]
                /\ loc'[t].rates = loc[t].rates
                /\ \E resp \in Responses :
                     resp.ok /\ loc[t].rates = ParseRates(resp.rates, EmptyRates))]_vars

\* a call made more than 60 seconds after the last successful fetch has
\* issued its one request and parsed the response
C2_Witness ==
    /\ pc["t1"] = "fetch_store_timestamp"
    /\ cache.timestamp > 0
    /\ loc["t1"].now - cache.timestamp > CACHE_TTL_SECONDS
    /\ netCalls["t1"] = 1

\* C3: a failed fetch ends the call with the fetch error after its one
\* request; neither the request nor the failure changes the snapshot; and the
\* call that follows a failed call goes to the network.
C3_FailedFetchLeavesNoTrace ==
    [][\A t \in Threads :
         /\ Leaves(t, "fetch_get") => cache' = cache
         /\ (Leaves(t, "fetch_response") /\ pc'[t] # "fetch_store_timestamp")
            => (/\ pc'[t] = "rendered"
                /\ netCalls'[t] = 1
                /\ cache' = cache
                /\ page'[t].error \in {FetchError(resp.exc) : resp \in {r \in Responses : ~r.ok}}
                /\ page'[t].results = <<>>)
         /\ (Leaves(t, "fetch_check") /\ last.kind = "failed")
            => pc'[t] = "fetch_get"]_vars

\* the call after a failed call has issued its request
C3_Witness ==
    /\ last.kind = "failed"
    /\ pc["t1"] = "fetch_response"
    /\ netCalls["t1"] = 1
    /\ loc["t1"].now > last.now

\* C4, as claimed: the snapshot's timestamp and its rates map were written by
\* the same fetch, in every state.
C4_SnapshotOfOneFetch == origin.timestamp = origin.rates

\* C5: a submission whose price is missing, unparseable or negative renders
\* the validation error with no result row, issues no request and leaves the
\* snapshot as it was; a submission with price 0 goes on to the rate lookup.
C5_InvalidPriceSkipsLookup ==
    [][\A t \in Threads :
         LET submitted == /\ pc[t] \in Resting
                          /\ req'[t].method = "POST"
                          /\ <<pc[t], req[t], page[t]>>' # <<pc[t], req[t], page[t]>>
         IN  /\ (submitted /\ req'[t].price \in {PriceMissing, PriceAbc, PriceMinus5})
                => (/\ pc'[t] = "rendered"
                    /\ page'[t].error = ValidationError
                    /\ page'[t].results = <<>>
                    /\ netCalls'[t] = 0
                    /\ cache' = cache)
             /\ (submitted /\ req'[t].price = PriceZero)
                => pc'[t] = "fetch_now"]_vars

\* a negative price has been turned down while a snapshot was cached
C5_Witness ==
    /\ pc["t1"] = "rendered"
    /\ req["t1"].price = PriceMinus5
    /\ page["t1"].error = ValidationError
    /\ page["t1"].results = <<>>
    /\ netCalls["t1"] = 0
    /\ cache.rates # EmptyRates

\* C6, as claimed: no failure escapes index.
C6_NoFailureEscapes == \A t \in Threads : pc[t] # "crashed"

\* C7: the page rendered after a successful lookup has a row for exactly the
\* selected symbols (upper-cased, the default list when none is selected) that
\* are keys of the fetched map, and no error.
C7_RowsAreSelectedAndAvailable ==
    [][\A t \in Threads :
         (Leaves(t, "build") /\ pc'[t] = "rendered")
            => LET chosen == IF req[t].cryptos = <<>> THEN SUPPORTED_CRYPTOS
                             ELSE [i \in 1..Len(req[t].cryptos) |-> Upper(req[t].cryptos[i])]
                   rows == page'[t].results
               IN  /\ {rows[i].symbol : i \in 1..Len(rows)}
                        = {chosen[i] : i \in 1..Len(chosen)} \cap DOMAIN loc[t].rates
                   /\ page'[t].error = NoError]_vars

\* SOL was selected and is no key of the map, USDC or USDT is a key and was
\* not selected: the one row is BTC
C7_Witness ==
    /\ pc["t1"] = "rendered"
    /\ req["t1"].cryptos = <<SOL, <<"b", "t", "c">>>>
    /\ page["t1"].error = NoError
    /\ Len(page["t1"].results) = 1
    /\ page["t1"].results[1].symbol = BTC

\* C8, as claimed: format_crypto_amount returns, for every symbol and amount,
\* the amount truncated toward zero to 2, 4 or 8 digits after the point.
C8_FormatTruncates ==
    fmt.done =>
        /\ ~fmt.out.raises
        /\ IsTruncation(fmt.out.text, fmt.amount,
                        IF fmt.symbol \in {USDC, USDT, <<"u", "s", "d", "c">>} THEN 2
                        ELSE IF fmt.symbol \in {XRP, ADA, DOGE, SOL, LTC, <<"x", "r", "p">>}
                        THEN 4 ELSE 8)

\* each row is the formatted rate and the formatted product, and the rows are
\* in the order of their symbols
RowsAreFormatted(rows, rates, usd_price) ==
    /\ \A i \in 1..Len(rows) :
         /\ rows[i].symbol \in DOMAIN rates
         /\ rows[i].usd_rate = format_crypto_amount(rows[i].symbol, rates[rows[i].symbol]).text
         /\ rows[i].item_amount =
              format_crypto_amount(rows[i].symbol, Mul(usd_price, rates[rows[i].symbol])).text
    /\ \A i \in 1..Len(rows), j \in 1..Len(rows) :
         i < j => ~StrLess(rows[j].symbol, rows[i].symbol)

\* the submission of the example is rendered with rows
ExampleRendered(t, rows) ==
    (/\ Leaves(t, "build")
     /\ pc'[t] = "rendered"
     /\ req[t].price = Price129
     /\ req[t].cryptos = <<>>
     /\ loc[t].rates = ExampleRates)
        => page'[t].results = rows

\* C9, as claimed: the rows are the formatted rate and product, sorted by
\* symbol; price 129.99 with BTC 0.00002 and USDC 1.00013 gives BTC 0.00002000
\* and 0.00259980, USDC 1.00 and 130.01.
C9_RowsOfTheExample ==
    [][\A t \in Threads :
         /\ (Leaves(t, "build") /\ pc'[t] = "rendered")
            => RowsAreFormatted(page'[t].results, loc[t].rates, loc[t].usd_price)
         /\ ExampleRendered(t, ExampleRows(<<"1", "3", "0", ".", "0", "1">>))]_vars

\* C9, amended: the same, with USDC's item_amount 130.00 (129.99 * 1.00013 is
\* 130.0068987).
C9_RowsOfTheExampleTruncated ==
    [][\A t \in Threads :
         /\ (Leaves(t, "build") /\ pc'[t] = "rendered")
            => RowsAreFormatted(page'[t].results, loc[t].rates, loc[t].usd_price)
         /\ ExampleRendered(t, ExampleRows(<<"1", "3", "0", ".", "0", "0">>))]_vars

\* the example has been rendered
C9_Witness ==
    /\ pc["t1"] = "rendered"
    /\ req["t1"].item = Headphones
    /\ req["t1"].price = Price129
    /\ req["t1"].cryptos = <<>>
    /\ page["t1"].results = ExampleRows(<<"1", "3", "0", ".", "0", "0">>)

\* C10, as claimed: a map returned from the cache was written by a fetch that
\* completed and that started less than 60 seconds before the call read the
\* clock (a map the call fetched itself is such a map).
C10_ReturnedMapIsFresh ==
    [][\A t \in Threads :
         (Leaves(t, "fetch_hit") /\ pc'[t] = "build")
            => (/\ origin.rates.by # "init"
                /\ loc[t].now - origin.rates.at < CACHE_TTL_SECONDS)]_vars

====
